---- MODULE Spec2Model ----
(***************************************************************************)
(* A model of prpy's marker-based KinBodyDetector                          *)
(* (perception/kalman/kalman_kinbody_detector.py) and of OpenRAVERetimer   *)
(* (planning/retimer.py).                                                  *)
(*                                                                         *)
(* Lengths are integers in units of 0.1; angles are quarter turns, so that *)
(* cos and sin are exact.  A Python exception is the name of its class in  *)
(* the field exc of a call's record, "none" when the call returned.        *)
(***************************************************************************)
EXTENDS Integers, Sequences, FiniteSets, TLC

VARIABLES
  env,               \* self.env: body name -> transform of the body
  generated_bodies,  \* self.generated_bodies
  marker_data,       \* self.marker_data: namespace -> <<kinbody_file, kinbody_offset>>
  reference_link,    \* self.reference_link: "None" or "link"
  call,              \* the last call on the detector: its inputs (the message
                     \* received, the catalog file read) and its result
  heap,              \* trajectory objects: the caller's path and the duplicate
  algorithm,         \* OpenRAVERetimer.algorithm
  rcall,             \* the last RetimeTrajectory call
  pcall              \* the last application of a pose helper

vars == <<env, generated_bodies, marker_data, reference_link,
          call, heap, algorithm, rcall, pcall>>

detector_vars == <<env, generated_bodies, marker_data, reference_link, call>>

retimer_vars == <<heap, algorithm, rcall>>

\* ------------------------------------------------------------------ bounds
MaxMarkers == 2
MaxFileMembers == 2
MaxCoord == 1
MaxHeight == 2
MaxWaypoints == 2

\* ------------------------------------------------------- 4x4 matrices
Idx4 == 1..4

Cos(k) == <<1, 0, -1, 0>>[(k % 4) + 1]

Sin(k) == <<0, 1, 0, -1>>[(k % 4) + 1]

Identity4 == <<<<1, 0, 0, 0>>, <<0, 1, 0, 0>>, <<0, 0, 1, 0>>, <<0, 0, 0, 1>>>>

numpy_ones == [i \in Idx4 |-> [j \in Idx4 |-> 1]]

numpy_dot(A, B) ==
  [i \in Idx4 |-> [j \in Idx4 |->
     A[i][1] * B[1][j] + A[i][2] * B[2][j] + A[i][3] * B[3][j] + A[i][4] * B[4][j]]]

\* tf.transformations.quaternion_matrix for a rotation of k quarter turns
\* about the vertical axis: a homogeneous matrix with zero translation
quaternion_matrix(k) ==
  <<<<Cos(k), -Sin(k), 0, 0>>, <<Sin(k), Cos(k), 0, 0>>, <<0, 0, 1, 0>>, <<0, 0, 0, 1>>>>

\* m with m[0,3], m[1,3], m[2,3] assigned from t
SetTranslation(m, t) ==
  [i \in Idx4 |-> [j \in Idx4 |-> IF j = 4 /\ i <= 3 THEN t[i] ELSE m[i][j]]]

\* obj_transform[:3, :3] = rotation about z by r; the rest of m is kept
SetRotationBlock(m, r) ==
  [i \in Idx4 |-> [j \in Idx4 |->
     IF i <= 3 /\ j <= 3 THEN quaternion_matrix(r)[i][j] ELSE m[i][j]]]

\* obj_transform[:, 3] = col
SetColumn4(m, col) ==
  [i \in Idx4 |-> [j \in Idx4 |-> IF j = 4 THEN col[i] ELSE m[i][j]]]

\* obj_transform[3, :] = row
SetRow4(m, row) ==
  [i \in Idx4 |-> IF i = 4 THEN row ELSE m[i]]

\* ------------------------------------------------- Python name resolution
\* the names bound at module level of kalman_kinbody_detector.py: its imports
\* and its two classes.  convert_to_kinbody_pose is bound in the body of class
\* KinBodyDetector, which is no enclosing scope of the methods' bodies.
ModuleGlobals ==
  {"prpy", "rospy", "os", "tf", "json", "numpy", "MarkerArray", "Marker",
   "quaternion_matrix", "DetectorException", "KinBodyDetector"}

LookupGlobal(name) == IF name \in ModuleGlobals THEN "none" ELSE "NameError"

\* the attributes of the numpy module that the file uses and numpy provides;
\* matrix inversion is numpy.linalg.inv, numpy has no attribute inv
NumpyNamespace ==
  {"matrix", "array", "ones", "zeros", "cos", "sin", "arctan2", "dot",
   "identity", "linalg"}

numpy_getattr(name) == IF name \in NumpyNamespace THEN "none" ELSE "AttributeError"

\* binding the positional arguments of a call to the parameters of a method
BindArgs(params, args) == IF Len(args) = Len(params) THEN "none" ELSE "TypeError"

\* se2_pose[i] with Python's zero-based index
HasIndex(s, i) == (i + 1) \in DOMAIN s

\* numpy.matrix(se2_pose): a matrix of one row
numpy_matrix(se2_pose) == <<se2_pose>>

\* ------------------------------------------------------------ pose helpers
\* convert_to_kinbody_pose(se2_pose, height): exc is "IndexError" when
\* se2_pose has no element 1 or 2 (a matrix of one row has only row 0)
convert_to_kinbody_pose(se2_pose, height) ==
  IF ~(HasIndex(se2_pose, 0) /\ HasIndex(se2_pose, 1) /\ HasIndex(se2_pose, 2))
  THEN [exc |-> "IndexError", value |-> Identity4]
  ELSE LET r == se2_pose[1]
           x == se2_pose[2]
           y == se2_pose[3]
           ones == numpy_ones
           rotated == SetRotationBlock(ones, r)
           obj_transform == SetColumn4(rotated, <<x, y, height, 1>>)
       IN [exc |-> "none", value |-> obj_transform]

\* the body of cost(x) up to its first statement, which looks up the global
\* name convert_to_kinbody_pose
cost == LookupGlobal("convert_to_kinbody_pose")

\* the transform optimize builds from the optimizer's result res.x
optimize_obj_transform(res, h) ==
  LET r == res[1]
      tx == res[2]
      ty == res[3]
      ones == numpy_ones
      rotated == SetRotationBlock(ones, r)
      withcol == SetColumn4(rotated, <<tx, ty, h, 1>>)
  IN SetRow4(withcol, <<0, 0, 0, 1>>)

optimize_params ==
  <<"kinbody_offset", "frame_offset", "marker_pose", "kinbody_init_pose", "table_height">>

\* optimize(...): x.minimize is what scipy's minimize does, "ValueError" when it
\* rejects its input, "evaluates" when it evaluates cost; x.res is the res.x it
\* would return.  none stands for the result (None, None); se2_pose None is <<>>.
optimize(table_height, x) ==
  IF x.minimize = "ValueError"
  THEN [exc |-> "none", none |-> TRUE, obj_transform |-> Identity4, se2_pose |-> <<>>]
  ELSE IF cost # "none"
  THEN [exc |-> cost, none |-> TRUE, obj_transform |-> Identity4, se2_pose |-> <<>>]
  ELSE [exc |-> "none", none |-> FALSE,
        obj_transform |-> optimize_obj_transform(x.res, table_height),
        se2_pose |-> x.res]

\* ------------------------------------------------------------ the catalog
SUFFIX == ".kinbody.xml"

File_foo == <<"foo", SUFFIX>>

File_bar == <<"bar", SUFFIX>>

Offset_id == Identity4

Offset_shift == SetTranslation(Identity4, <<1, 0, 2>>)

\* the members a catalog file is written from
CatalogMembers ==
  {<<"N", <<File_foo, Offset_id>>>>, <<"N", <<File_bar, Offset_shift>>>>,
   <<"M", <<File_foo, Offset_id>>>>}

SeqsUpTo(S, n) == UNION {[1..k -> S] : k \in 0..n}

\* the texts the catalog file can hold: a JSON object (its members in the
\* order of the text, a key possibly repeated), a text that is no JSON, or
\* no file at all
CatalogFiles ==
  {[state |-> "object", members |-> ms] : ms \in SeqsUpTo(CatalogMembers, MaxFileMembers)}
  \cup {[state |-> "malformed", members |-> <<>>], [state |-> "missing", members |-> <<>>]}

EmptyDict == [n \in {} |-> <<File_foo, Offset_id>>]

RECURSIVE json_object(_, _)
\* the dict json.load builds from the first i members: a later member with
\* the same key replaces the earlier one
json_object(members, i) ==
  IF i = 0 THEN EmptyDict
  ELSE LET d == json_object(members, i - 1)
           k == members[i][1]
       IN [n \in DOMAIN d \cup {k} |-> IF n = k THEN members[i][2] ELSE d[n]]

\* with open(self.marker_data_path, 'r') as f: json.load(f)
json_load(f) ==
  IF f.state = "missing" THEN [exc |-> "IOError", value |-> EmptyDict]
  ELSE IF f.state = "malformed" THEN [exc |-> "ValueError", value |-> EmptyDict]
  ELSE [exc |-> "none", value |-> json_object(f.members, Len(f.members))]

\* dict.update: what a merging reload would keep
LoadedMarkerData_merge(old, loaded) ==
  [n \in DOMAIN old \cup DOMAIN loaded |-> IF n \in DOMAIN loaded THEN loaded[n] ELSE old[n]]

\* self.marker_data = json.load(f)
LoadedMarkerData(old, loaded) == loaded

\* ------------------------------------------------- markers and the world
KnownTableHeight == 5

\* a marker's pose: its orientation (quarter turns about z) and its position
MarkerPose_a == [q |-> 0, pos |-> <<1, 2, 3>>]

MarkerPose_b == [q |-> 1, pos |-> <<2, 0, 3>>]

\* the markers a message is made of
Markers ==
  {[ns |-> "N", id |-> 7, pose |-> MarkerPose_a],
   [ns |-> "X", id |-> 8, pose |-> MarkerPose_b]}

Messages == SeqsUpTo(Markers, MaxMarkers)

\* what the world can answer while one marker is processed: the frame the
\* transform service reports, the height get_table_height returns, the mean
\* the filter returns, the res.x of scipy's minimize, the transform of the
\* reference link
Frames == {[q |-> 0, trans |-> <<0, 0, 0>>], [q |-> 1, trans |-> <<1, 1, 0>>]}

TableHeights == {7}

Se2Poses == {<<0, 1, 1>>, <<1, 2, 0>>}

OptimizerResults == {<<1, 1, 2>>}

RefPoses == {SetTranslation(Identity4, <<0, 0, 1>>)}

MinimizeAnswers == [minimize : {"ValueError", "evaluates"}, res : OptimizerResults]

\* lines 153-160: marker_pose from the marker's quaternion and position
MarkerPose(m) == SetTranslation(quaternion_matrix(m.pose.q), m.pose.pos)

\* lines 172-175: frame_offset from the looked-up rotation and translation
FrameOffset(f) == SetTranslation(quaternion_matrix(f.q), f.trans)

\* str(marker.id) for a one-digit id
str(n) == <<"0", "1", "2", "3", "4", "5", "6", "7", "8", "9">>[n + 1]

\* s.replace(old, ''): every occurrence of old is dropped
str_replace(s, old) == SelectSeq(s, LAMBDA t : t # old)

\* lines 252-253
kinbody_name(kinbody_file, id) == str_replace(kinbody_file, SUFFIX) \o <<str(id)>>

\* ------------------------------------------------------------------ Update
\* a test that lets every marker through
MarkerInCatalog_always(m, md) == TRUE

\* line 150, marker.ns in self.marker_data
MarkerInCatalog(m, md) == m.ns \in DOMAIN md

\* line 151, self.marker_data[marker.ns]: a missing key raises KeyError
CatalogEntry(md, ns) ==
  IF ns \in DOMAIN md THEN [exc |-> "none", value |-> md[ns]]
  ELSE [exc |-> "KeyError", value |-> <<File_foo, Offset_id>>]

Ev(fn, exc) == [fn |-> fn, exc |-> exc]

Raise(st, exc, trace) == [st EXCEPT !.exc = exc, !.trace = trace]

\* the reference link's transform, when a link is configured
WithReference(ref_pose, pose) ==
  IF reference_link # "None" THEN numpy_dot(ref_pose, pose) ELSE pose

RefTrace(tr, draw) ==
  IF reference_link = "None" THEN tr
  ELSE IF draw THEN tr \o <<Ev("GetTransform", "none"), Ev("DrawAxes", "none")>>
  ELSE Append(tr, Ev("GetTransform", "none"))

\* lines 219-266: filtering, the final pose, creation and update of the body,
\* as the set of states they can end in over the filter's answers
AfterRefinement(m, ref_pose, st, tr, h, kinbody_pose, se2_pose, kinbody_file) ==
  LET mu == numpy_matrix(se2_pose)
      inv_exc == numpy_getattr("inv")
  IN
  IF inv_exc # "none" THEN {Raise(st, inv_exc, tr)}
  ELSE
  LET tr1 == Append(tr, Ev("update", "none"))
      conv_exc == LookupGlobal("convert_to_kinbody_pose")
      conv == convert_to_kinbody_pose(mu, h)
      name == kinbody_name(kinbody_file, m.id)
  IN
  {LET st1 == [st EXCEPT !.filtered = Append(@, [mu_new |-> mu_new, h |-> h])]
       final_kb_pose == WithReference(ref_pose, conv.value)
       tr2 == RefTrace(tr1, FALSE)
       tr3 == Append(tr2, Ev("GetKinBody", "none"))
       absent == name \notin DOMAIN st1.env
       env1 == IF absent
               THEN [n \in DOMAIN st1.env \cup {name} |->
                       IF n = name THEN Identity4 ELSE st1.env[n]]
               ELSE st1.env
       tr4 == IF absent THEN Append(tr3, Ev("add_object", "none")) ELSE tr3
       tr5 == tr4 \o <<Ev("GetKinBody", "none"), Ev("SetTransform", "none")>>
   IN IF conv_exc # "none" THEN Raise(st1, conv_exc, tr1)
      ELSE IF conv.exc # "none" THEN Raise(st1, conv.exc, tr1)
      ELSE [st1 EXCEPT
              !.env = [env1 EXCEPT ![name] = final_kb_pose],
              !.gen = IF absent THEN Append(@, name) ELSE @,
              !.added = IF absent THEN Append(@, name) ELSE @,
              !.updated = Append(@, name),
              !.trace = tr5]
   : mu_new \in Se2Poses}

\* a call of self.optimize with the arguments args, and what follows it
\* (lines 195-207 with draw, lines 211-217 without), over minimize's answers
Refine(m, ref_pose, st, tr, h, args, draw, kinbody_pose, kinbody_file) ==
  LET bind == BindArgs(optimize_params, args) IN
  IF bind # "none" THEN {Raise(st, bind, tr)}
  ELSE UNION
    {LET o == optimize(h, x)
         tr1 == Append(tr, Ev("minimize", IF x.minimize = "ValueError"
                                          THEN "ValueError" ELSE o.exc))
         tr2 == IF o.none \/ ~draw THEN tr1 ELSE RefTrace(tr1, TRUE)
     IN IF o.exc # "none" THEN {Raise(st, o.exc, tr1)}
        ELSE AfterRefinement(m, ref_pose, st, tr2, h,
                             IF o.none THEN kinbody_pose ELSE o.obj_transform,
                             o.se2_pose, kinbody_file)
     : x \in MinimizeAnswers}

\* lines 172-217: from the looked-up frame to the refinement
AfterLookup(m, st, entry, frame, ref_pose) ==
  LET kinbody_file == entry[1]
      kinbody_offset == entry[2]
      marker_pose == MarkerPose(m)
      tr1 == st.trace \o <<Ev("waitForTransform", "none"), Ev("lookupTransform", "none")>>
      frame_offset == FrameOffset(frame)
      kinbody_pose == numpy_dot(numpy_dot(frame_offset, marker_pose), kinbody_offset)
      tr2 == RefTrace(tr1, TRUE)
      st1 == [st EXCEPT !.estimates =
                Append(@, [name |-> kinbody_name(kinbody_file, m.id),
                           pose |-> WithReference(ref_pose, kinbody_pose)])]
  IN
    \* get_table_height raises PerceptionException: lines 209-217, h = 0.5
    Refine(m, ref_pose, st1,
           Append(tr2, Ev("get_table_height", "PerceptionException")),
           KnownTableHeight,
           <<"kinbody_offset", "frame_offset", "marker_pose", "h">>,
           FALSE, kinbody_pose, kinbody_file)
    \cup
    \* get_table_height returns h: lines 194-207
    UNION {Refine(m, ref_pose, st1, Append(tr2, Ev("get_table_height", "none")), h,
                  <<"kinbody_offset", "frame_offset", "marker_pose", "kinbody_pose", "h">>,
                  TRUE, kinbody_pose, kinbody_file)
           : h \in TableHeights}

\* lines 150-266: the body of the loop for one marker, as the set of states
\* it can end in over the answers of the transform service
ProcessMarker(m, st) ==
  IF ~MarkerInCatalog(m, marker_data) THEN {st}
  ELSE
  LET ent == CatalogEntry(marker_data, m.ns) IN
  IF ent.exc # "none" THEN {Raise(st, ent.exc, st.trace)}
  ELSE
    {Raise(st, "tf.Exception", Append(st.trace, Ev("waitForTransform", "tf.Exception")))}
    \cup
    UNION {AfterLookup(m, st, ent.value, a[1], a[2]) : a \in Frames \X RefPoses}

RECURSIVE UpdateOutcomes(_, _, _)
\* line 149: the loop over marker_message.markers from marker i on, as the set
\* of states it can end in; an exception ends the loop
UpdateOutcomes(markers, i, st) ==
  IF i > Len(markers) \/ st.exc # "none" THEN {st}
  ELSE UNION {UpdateOutcomes(markers, i + 1, s) : s \in ProcessMarker(markers[i], st)}

\* a wait that answers a timeout with an empty message instead of raising
wait_for_message_swallow(arrival) == [exc |-> "none", markers |-> arrival.markers]

\* lines 142-144, rospy.wait_for_message: the message, or ROSException when
\* none arrives within the timeout
wait_for_message(arrival) ==
  IF arrival.timeout THEN [exc |-> "ROSException", markers |-> <<>>]
  ELSE [exc |-> "none", markers |-> arrival.markers]

Arrivals ==
  {[timeout |-> TRUE, markers |-> <<>>]} \cup
  {[timeout |-> FALSE, markers |-> ms] : ms \in Messages}

CallRecord(op, arrival, file, st, returned, prev) ==
  [op |-> op, timeout |-> arrival.timeout, msg |-> arrival.markers, file |-> file,
   exc |-> st.exc, returned |-> returned,
   added |-> IF returned THEN st.added ELSE <<>>,
   updated |-> IF returned THEN st.updated ELSE <<>>,
   trace |-> st.trace, estimates |-> st.estimates, filtered |-> st.filtered,
   prev |-> prev]

NoFile == [state |-> "missing", members |-> <<>>]

NoArrival == [timeout |-> FALSE, markers |-> <<>>]

LoopStart(e, g, exc, trace) ==
  [env |-> e, gen |-> g, added |-> <<>>, updated |-> <<>>, exc |-> exc,
   trace |-> trace, estimates |-> <<>>, filtered |-> <<>>]

\* KinBodyDetector.Update: one whole call
Update ==
  /\ \E arrival \in Arrivals :
       LET w == wait_for_message(arrival)
           st0 == LoopStart(env, generated_bodies, w.exc,
                            <<Ev("wait_for_message", w.exc)>>)
       IN \E st \in UpdateOutcomes(w.markers, 1, st0) :
            /\ env' = st.env
            /\ generated_bodies' = st.gen
            /\ call' = CallRecord("Update", arrival, NoFile, st, st.exc = "none",
                                  marker_data)
  /\ UNCHANGED <<marker_data, reference_link, heap, algorithm, rcall, pcall>>

\* KinBodyDetector.ReloadKinbodyData: one whole call; f is the text of the
\* file at self.marker_data_path when the call opens it
ReloadKinbodyData ==
  /\ \E f \in CatalogFiles :
       LET r == json_load(f)
           st == LoopStart(env, generated_bodies, r.exc, <<Ev("json.load", r.exc)>>)
       IN /\ marker_data' = IF r.exc = "none" THEN LoadedMarkerData(marker_data, r.value)
                            ELSE marker_data
          /\ call' = CallRecord("ReloadKinbodyData", NoArrival, f, st, r.exc = "none",
                                marker_data)
  /\ UNCHANGED <<env, generated_bodies, reference_link, heap, algorithm, rcall, pcall>>

\* ----------------------------------------------------------- the retimer
\* openravepy.PlannerStatus: Failed = 0, HasSolution = 1, Interrupted = 2,
\* InterruptedWithSolution = 3
PlannerStatuses == {0, 1, 2, 3}

\* str(status)
str_status(status) ==
  <<"Failed", "HasSolution", "Interrupted", "InterruptedWithSolution">>[status + 1]

\* a check that accepts HasSolution only
AcceptedStatuses_only_solution == {1}

\* lines 48-49: [PlannerStatus.HasSolution, PlannerStatus.InterruptedWithSolution]
AcceptedStatuses == {1, 3}

\* line 46: the trajectory handed to the external routine
RetimeTarget == "output_traj"

Waypoints == {0, 1, 2}

\* a trajectory: its waypoints and its timing (0: not timed)
Paths == {[waypoints |-> w, timing |-> 0] : w \in SeqsUpTo(Waypoints, MaxWaypoints)}

NoTrajectory == [waypoints |-> <<>>, timing |-> 0]

\* prpy.util.CopyTrajectory: a new trajectory with the content of the given one
CopyTrajectory(traj) == [waypoints |-> traj.waypoints, timing |-> traj.timing]

\* openravepy.planningutils.RetimeTrajectory writes the timing into the
\* trajectory it is given; without a solution it may leave it as it was (0)
\* or half done
RetimerEffects(status) == IF status \in {1, 3} THEN {1, 2} ELSE {0, 1, 2}

\* line 50: 'Retimer returned with status {0:s}.'.format(str(status))
PlanningErrorMessage(status) ==
  <<"Retimer returned with status ", str_status(status), ".">>

\* OpenRAVERetimer.RetimeTrajectory: one whole call
RetimeTrajectory ==
  /\ \E p \in Paths, status \in PlannerStatuses :
       \E timing \in RetimerEffects(status) :
         LET h0 == [heap EXCEPT !["path"] = p]
             h1 == [h0 EXCEPT !["output_traj"] = CopyTrajectory(h0["path"])]
             h2 == [h1 EXCEPT ![RetimeTarget].timing = timing]
             ok == status \in AcceptedStatuses
         IN /\ heap' = h2
            /\ rcall' = [op |-> "RetimeTrajectory", path_before |-> p,
                         algorithm |-> algorithm, status |-> status, timing |-> timing,
                         exc |-> IF ok THEN "none" ELSE "PlanningError",
                         message |-> IF ok THEN <<>> ELSE PlanningErrorMessage(status),
                         ret |-> IF ok THEN "output_traj" ELSE "None"]
  /\ UNCHANGED <<detector_vars, algorithm, pcall>>

\* -------------------------------------------------- the pose helpers alone
Angles == 0..3

Coords == (0 - MaxCoord)..MaxCoord

Heights == 0..MaxHeight

Se2Vectors == Angles \X Coords \X Coords

\* convert_to_kinbody_pose applied to a state (theta, x, y) given as a vector
ApplyConvert ==
  /\ \E v \in Se2Vectors, h \in Heights :
       LET c == convert_to_kinbody_pose(v, h)
       IN pcall' = [fn |-> "convert_to_kinbody_pose", shape |-> "vector", se2 |-> v,
                    height |-> h, exc |-> c.exc, value |-> c.value]
  /\ UNCHANGED <<detector_vars, retimer_vars>>

\* convert_to_kinbody_pose applied to numpy.matrix(se2_pose), as on line 244
ApplyConvertToMatrix ==
  /\ \E v \in Se2Vectors, h \in Heights :
       LET c == convert_to_kinbody_pose(numpy_matrix(v), h)
       IN pcall' = [fn |-> "convert_to_kinbody_pose", shape |-> "matrix", se2 |-> v,
                    height |-> h, exc |-> c.exc, value |-> c.value]
  /\ UNCHANGED <<detector_vars, retimer_vars>>

\* the transform optimize builds from res.x on lines 122-133
ApplyOptimizeTransform ==
  /\ \E v \in Se2Vectors, h \in Heights :
       pcall' = [fn |-> "optimize", shape |-> "vector", se2 |-> v, height |-> h,
                 exc |-> "none", value |-> optimize_obj_transform(v, h)]
  /\ UNCHANGED <<detector_vars, retimer_vars>>

\* --------------------------------------------------------- specifications
InitialEnv == [n \in {<<"table">>} |-> Identity4]

NoCall ==
  CallRecord("__init__", NoArrival, NoFile, LoopStart(InitialEnv, <<>>, "none", <<>>),
             FALSE, EmptyDict)

NoRetimerCall ==
  [op |-> "__init__", path_before |-> NoTrajectory, algorithm |-> "", status |-> 0,
   timing |-> 0, exc |-> "none", message |-> <<>>, ret |-> "None"]

NoPoseCall ==
  [fn |-> "", shape |-> "vector", se2 |-> <<0, 0, 0>>, height |-> 0, exc |-> "none",
   value |-> Identity4]

\* KinBodyDetector.__init__ has returned: the catalog file was loaded
InitDetector ==
  /\ env = InitialEnv
  /\ generated_bodies = <<>>
  /\ \E f \in CatalogFiles : /\ json_load(f).exc = "none"
                             /\ marker_data = json_load(f).value
  /\ reference_link \in {"None", "link"}
  /\ call = NoCall

\* OpenRAVERetimer.__init__ has returned
InitRetimer ==
  /\ heap = [o \in {"path", "output_traj"} |-> NoTrajectory]
  /\ rcall = NoRetimerCall

InitPose == pcall = NoPoseCall

Init ==
  /\ InitDetector
  /\ InitRetimer
  /\ algorithm = "ParabolicTrajectoryRetimer"
  /\ InitPose

Next == Update \/ ReloadKinbodyData

Spec == Init /\ [][Next]_vars

InitR ==
  /\ env = InitialEnv
  /\ generated_bodies = <<>>
  /\ marker_data = EmptyDict
  /\ reference_link = "None"
  /\ call = NoCall
  /\ InitRetimer
  /\ algorithm \in {"ParabolicTrajectoryRetimer", "LinearTrajectoryRetimer"}
  /\ InitPose

NextRetimer == RetimeTrajectory

SpecRetimer == InitR /\ [][NextRetimer]_vars

InitP ==
  /\ env = InitialEnv
  /\ generated_bodies = <<>>
  /\ marker_data = EmptyDict
  /\ reference_link = "None"
  /\ call = NoCall
  /\ InitRetimer
  /\ algorithm = "ParabolicTrajectoryRetimer"
  /\ InitPose

NextPose == ApplyConvert \/ ApplyConvertToMatrix \/ ApplyOptimizeTransform

SpecPose == InitP /\ [][NextPose]_vars

\* ================================================================ claims
Range(s) == {s[i] : i \in DOMAIN s}

\* the instance name the specification gives a catalogued marker
InstanceName(m) == kinbody_name(marker_data[m.ns][1], m.id)

\* the planar pose of the specification: rotation about the vertical axis,
\* translation (x, y, h), bottom row [0, 0, 0, 1]
PlanarPose(se2, h) == SetTranslation(quaternion_matrix(se2[1]), <<se2[2], se2[3], h>>)

IsPrefix(s, t) == Len(s) <= Len(t) /\ \A i \in DOMAIN s : s[i] = t[i]

NoRepeat(s) == \A j, k \in DOMAIN s : s[j] = s[k] => j = k

\* the last call was an Update that received a message and met no timeout of
\* the transform service
UpdateWithTransforms ==
  /\ call.op = "Update"
  /\ ~call.timeout
  /\ Ev("waitForTransform", "tf.Exception") \notin Range(call.trace)

\* C1: an Update whose message arrived and whose transform lookups succeeded
\* returns; every catalogued marker of the message then has a body of its
\* instance name in the environment, returned in the updated list, and in the
\* added list exactly when the environment did not hold it before the call;
\* generated_bodies grows by the added list, which names no body twice.
C1_SightingCreatesOrUpdates ==
  [][UpdateWithTransforms' =>
       /\ call'.returned
       /\ \A i \in DOMAIN call'.msg :
            MarkerInCatalog(call'.msg[i], marker_data) =>
              LET n == InstanceName(call'.msg[i])
              IN /\ n \in DOMAIN env'
                 /\ n \in Range(call'.updated)
                 /\ (n \in Range(call'.added)) <=> (n \notin DOMAIN env)
       /\ NoRepeat(call'.added)
       /\ generated_bodies' = generated_bodies \o call'.added]_vars

\* C2: an Update whose message holds only markers of namespaces absent from the
\* catalog returns two empty lists, leaves the environment and
\* generated_bodies as they were, and calls nothing but wait_for_message.
C2_UnknownMarkersIgnored ==
  [][(/\ call'.op = "Update"
      /\ ~call'.timeout
      /\ \A i \in DOMAIN call'.msg : call'.msg[i].ns \notin DOMAIN marker_data)
     => /\ call'.returned
        /\ call'.added = <<>>
        /\ call'.updated = <<>>
        /\ call'.trace = <<Ev("wait_for_message", "none")>>
        /\ env' = env
        /\ generated_bodies' = generated_bodies]_vars

\* an Update has returned for a message of two markers, none of them in the
\* catalog
C2_Witness ==
  /\ call.op = "Update"
  /\ call.returned
  /\ Len(call.msg) = 2
  /\ \E i \in DOMAIN call.msg : call.msg[i].ns = "N"
  /\ \A i \in DOMAIN call.msg : call.msg[i].ns \notin DOMAIN marker_data

\* C3: when minimize fails with ValueError for the one catalogued marker of a
\* message, Update returns and the body's transform is the estimate made
\* before the refinement (with the reference link's transform applied).
C3_OptimizerFailureKeepsEstimate ==
  (/\ call.op = "Update"
   /\ Len(call.estimates) = 1
   /\ Ev("minimize", "ValueError") \in Range(call.trace))
  => /\ call.returned
     /\ call.estimates[1].name \in DOMAIN env
     /\ env[call.estimates[1].name] = call.estimates[1].pose

\* C4: when get_table_height raises PerceptionException for the one catalogued
\* marker of a message, Update returns, the filter was run with height 0.5 and
\* the body stands at height 0.5.
C4_TableHeightFallback ==
  (/\ call.op = "Update"
   /\ Len(call.estimates) = 1
   /\ Ev("get_table_height", "PerceptionException") \in Range(call.trace))
  => /\ call.returned
     /\ Len(call.filtered) = 1
     /\ call.filtered[1].h = KnownTableHeight
     /\ call.estimates[1].name \in DOMAIN env
     /\ reference_link = "None" => env[call.estimates[1].name][3][4] = KnownTableHeight

\* C5: RetimeTrajectory returns the retimed duplicate exactly when the status
\* is HasSolution or InterruptedWithSolution, raises PlanningError with the
\* status in its message otherwise, and leaves the caller's path as it was.
C5_RetimerStatusContract ==
  rcall.op = "RetimeTrajectory" =>
    /\ (str_status(rcall.status) \in {"HasSolution", "InterruptedWithSolution"})
         <=> (rcall.exc = "none")
    /\ rcall.exc = "none" =>
         /\ rcall.ret = "output_traj"
         /\ heap["output_traj"] = [waypoints |-> rcall.path_before.waypoints,
                                   timing |-> rcall.timing]
    /\ rcall.exc # "none" =>
         /\ rcall.exc = "PlanningError"
         /\ rcall.ret = "None"
         /\ str_status(rcall.status) \in Range(rcall.message)
    /\ heap["path"] = rcall.path_before

\* a call has failed on the status Interrupted after the external routine had
\* written a timing into the trajectory it was given
C5_Witness ==
  /\ rcall.op = "RetimeTrajectory"
  /\ rcall.exc = "PlanningError"
  /\ str_status(rcall.status) = "Interrupted"
  /\ rcall.timing > 0
  /\ Len(rcall.path_before.waypoints) = 2

\* C6: after a successful reload the mapping has exactly the keys of the file
\* read, each with the value of the key's last member in the file, and a
\* second reload of the same text leaves the mapping as the first left it.
C6_ReloadTotalReplace ==
  [][(call'.op = "ReloadKinbodyData" /\ call'.returned) =>
       LET ms == call'.file.members
       IN /\ DOMAIN marker_data' = {ms[i][1] : i \in DOMAIN ms}
          /\ \A i \in DOMAIN ms :
               (\A j \in DOMAIN ms : j > i => ms[j][1] # ms[i][1])
                 => marker_data'[ms[i][1]] = ms[i][2]
          /\ (call.op = "ReloadKinbodyData" /\ call.returned /\ call.file = call'.file)
               => marker_data' = marker_data]_vars

\* a reload has returned that dropped a namespace of the mapping it replaced
\* and kept another with a new entry
C6_Witness ==
  /\ call.op = "ReloadKinbodyData"
  /\ call.returned
  /\ \E ns \in DOMAIN call.prev : ns \notin DOMAIN marker_data
  /\ \E ns \in DOMAIN call.prev : ns \in DOMAIN marker_data /\ marker_data[ns] # call.prev[ns]

\* C7: after an Update that processed the one catalogued marker of its
\* message, the filter was run once and the body's transform is the planar
\* pose of the mean the filter returned, at the height used.
C7_FinalPoseFromUpdatedMean ==
  (UpdateWithTransforms /\ Len(call.estimates) = 1)
  => /\ call.returned
     /\ Len(call.filtered) = 1
     /\ call.estimates[1].name \in DOMAIN env
     /\ \E rp \in RefPoses :
          env[call.estimates[1].name] =
            WithReference(rp, PlanarPose(call.filtered[1].mu_new, call.filtered[1].h))

\* C8: an Update that receives no message within the timeout raises the
\* timeout after one wait, returns no list, and leaves the environment, the
\* catalog mapping and generated_bodies as they were.
C8_TimeoutFailsOnce ==
  [][(call'.op = "Update" /\ call'.timeout) =>
       /\ call'.exc = "ROSException"
       /\ ~call'.returned
       /\ call'.added = <<>>
       /\ call'.updated = <<>>
       /\ call'.trace = <<Ev("wait_for_message", "ROSException")>>
       /\ UNCHANGED <<env, marker_data, generated_bodies, reference_link>>]_vars

\* an Update has timed out on the wait for a message, with a catalog that is
\* not empty
C8_Witness ==
  /\ call.op = "Update"
  /\ call.timeout
  /\ call.exc = "ROSException"
  /\ DOMAIN marker_data # {}

\* C9: convert_to_kinbody_pose applied to a state (theta, x, y) and a height
\* returns a matrix whose translation column is (x, y, height) and whose
\* bottom row is [0, 0, 0, 1].
C9_WellFormedTransform ==
  (pcall.fn = "convert_to_kinbody_pose" /\ pcall.shape = "vector") =>
    /\ pcall.exc = "none"
    /\ pcall.value[1][4] = pcall.se2[2]
    /\ pcall.value[2][4] = pcall.se2[3]
    /\ pcall.value[3][4] = pcall.height
    /\ pcall.value[4] = <<0, 0, 0, 1>>

====
